---- MODULE Spec2Model ----
(***************************************************************************)
(* The subsa asset ledger (src/lib.rs): one ink! contract holding a single *)
(* fungible asset, with per-account balances, opt-in flags and frozen      *)
(* flags, and four role holders that the manager may rewrite.              *)
(*                                                                         *)
(* Every message of the contract runs to completion before the next one,   *)
(* so each message is one action.  Besides the storage fields the state    *)
(* records the last message: who called it (env_caller), which message it  *)
(* was (op), what it returned (ret) and the events it emitted (events).    *)
(*                                                                         *)
(* Five specifications share the messages.  Spec sends up to MaxCalls      *)
(* messages to a freshly constructed asset, and SpecCreator does so for an *)
(* asset whose creator made itself manager and freeze authority.           *)
(* SpecLedger and SpecRoles send one message to an asset that holds any    *)
(* ledger, respectively any four role holders, and so cover the states no  *)
(* sequence of MaxCalls messages reaches.  SpecHolders sends up to         *)
(* MaxCalls messages to an asset whose supply is held by two opted-in      *)
(* accounts.  No message credits a balance that was not debited, so        *)
(* positive balances exist under SpecLedger and SpecHolders alone.         *)
(***************************************************************************)
EXTENDS Integers, Sequences, FiniteSets, TLC

\* ------------------------------------------------------------------ bounds

\* Largest balance and amount of the model; stands for Balance::MAX (u128).
MaxBalance == 2

\* Number of messages dispatched to the contract in one behaviour.
MaxCalls == 2

\* ------------------------------------------------------------- identifiers

\* AccountId::from([0x0; 32]), the sentinel written for an absent role.
ZeroAccount == "zero"

\* The account identifiers of the model: the sentinel and two others.
AccountId == {ZeroAccount, "alice", "bob"}

Balance == 0..MaxBalance

\* The total supplies given to the constructor: none and the largest.
TotalArgs == {0, MaxBalance}

\* Option<T>: None is the empty tuple, Some(x) the one-element tuple.
None == <<>>

Some(x) == <<x>>

Option(T) == {None} \cup {Some(x) : x \in T}

\* Option::unwrap_or / unwrap_or_else.
unwrap_or(o, d) == IF o = None THEN d ELSE o[1]

\* The optional identifiers passed for the manager and the freeze authority.
\* Some(ZeroAccount) stores the same identifier as None and is left out.
RoleArgs == Option(AccountId \ {ZeroAccount})

\* The optional identifiers passed for the reserve and the clawback authority,
\* two fields no message reads except to report them in the Modify event.
SpareRoleArgs == Option({"bob"})

\* ----------------------------------------------------------------- Mapping

\* ink_storage::Mapping<K, V>: a partial function; a key never written is
\* absent.  Mapping::default() is the empty mapping.
MappingDefault == [k \in {} |-> 0]

\* Mapping::get: None for an absent key, Some(value) otherwise.
MappingGet(m, k) == IF k \in DOMAIN m THEN Some(m[k]) ELSE None

\* Mapping::insert: writes the key, creating it when absent.
MappingInsert(m, k, v) == [x \in (DOMAIN m) \cup {k} |-> IF x = k THEN v ELSE m[x]]

\* All mappings from a subset of keys K to values in V.
Mappings(K, V) == UNION {[D -> V] : D \in SUBSET K}

\* The sum of the values stored in a mapping of balances.
RECURSIVE SumOver(_, _)
SumOver(m, D) ==
    IF D = {} THEN 0
    ELSE LET k == CHOOSE x \in D : TRUE IN m[k] + SumOver(m, D \ {k})

SumOfBalances(m) == SumOver(m, DOMAIN m)

\* ------------------------------------------------------------------- state

VARIABLES
    total,              \* immutable: total supply recorded at construction
    default_frozen,     \* immutable: whether accounts of the asset can be frozen
    managerId,
    reserveId,
    freezeId,
    clawbackId,
    balances,           \* Mapping<AccountId, Balance>
    accounts_opted_in,  \* Mapping<AccountId, bool>
    frozen_holders,     \* Mapping<AccountId, bool>
    env_caller,         \* self.env().caller() of the last message
    op,                 \* the last message dispatched ("new" after construction)
    ret,                \* what it returned: "Ok" or the Error variant
    events,             \* the events it emitted, in order
    calls               \* messages dispatched so far

params == <<total, default_frozen>>

roles == <<managerId, reserveId, freezeId, clawbackId>>

ledger == <<balances, accounts_opted_in, frozen_holders>>

storage == <<params, roles, ledger>>

vars == <<storage, env_caller, op, ret, events, calls>>

\* The variants of enum Error.
Error == {"NotManagerId", "NotReserveId", "NotFreezeId", "NotClawbackId",
          "NotOptedIn", "AlreadyOptedIn", "NotFrozen", "NotFreezable",
          "AlreadyFrozen", "FrozenAccount", "NotEnoughBalance", "ZeroAmount"}

\* ------------------------------------------------------------------ events

\* asset_id (the contract's own account) is the same in every event and is
\* left out of the event records.
TransferEvent(sender, receiver, amount) ==
    [kind |-> "Transfer", sender |-> sender, receiver |-> receiver, amount |-> Some(amount)]

OptInEvent(account) == [kind |-> "OptIn", account |-> account]

OptOutEvent(account) == [kind |-> "OptOut", account |-> account]

FreezeEvent(account, freeze_id, freeze) ==
    [kind |-> "Freeze", account |-> account, freeze_id |-> freeze_id, freeze |-> freeze]

ModifyEvent(manager_id, reserve_id, freeze_id, clawback_id) ==
    [kind |-> "Modify", manager_id |-> manager_id, reserve_id |-> reserve_id,
     freeze_id |-> freeze_id, clawback_id |-> clawback_id]

\* --------------------------------------------------------------- messages

\* `return Err(e)` before any write: nothing is stored, nothing is emitted.
Err(e) ==
    /\ ret' = e
    /\ events' = <<>>
    /\ UNCHANGED storage

\* The message is dispatched: one more call, by this caller, and op names it.
Dispatch(name, who) ==
    /\ calls < MaxCalls
    /\ env_caller' = who
    /\ calls' = calls + 1
    /\ op' = name

\* Mutant of sender_balance: an absent balance reads as the whole supply.
sender_balance_or_total(sender) == unwrap_or(MappingGet(balances, sender), total)

\* let sender_balance = self.balances.get(&sender).unwrap_or(0);
sender_balance(sender) == unwrap_or(MappingGet(balances, sender), 0)

\* Mutant of receiver_opted_in: an absent flag reads as opted in.
receiver_opted_in_or_true(receiver) ==
    unwrap_or(MappingGet(accounts_opted_in, receiver), TRUE)

\* let receiver_opted_in = self.accounts_opted_in.get(&receiver).unwrap_or(false);
receiver_opted_in(receiver) == unwrap_or(MappingGet(accounts_opted_in, receiver), FALSE)

\* Mutant of transfer_balances: the debit is never written.
transfer_balances_no_debit(sender, receiver, amount) ==
    MappingInsert(balances, receiver,
                  unwrap_or(MappingGet(balances, receiver), 0) + amount)

\* Mutant of transfer_balances: the credit is never written.
transfer_balances_no_credit(sender, receiver, amount) ==
    MappingInsert(balances, sender, sender_balance(sender) - amount)

\* Mutant of transfer_balances: the credit is computed from the receiver's
\* balance as it was before the debit.
transfer_balances_stale_credit(sender, receiver, amount) ==
    LET debited == MappingInsert(balances, sender, sender_balance(sender) - amount)
    IN  MappingInsert(debited, receiver,
                      unwrap_or(MappingGet(balances, receiver), 0) + amount)

\* The two inserts of transfer: the debit is written first, and the credit
\* reads the receiver's balance from the mapping after the debit.
transfer_balances(sender, receiver, amount) ==
    LET debited == MappingInsert(balances, sender, sender_balance(sender) - amount)
    IN  MappingInsert(debited, receiver,
                      unwrap_or(MappingGet(debited, receiver), 0) + amount)

\* Mutant of transfer_check: the receiver's opt-in is checked before the
\* caller's balance.
transfer_check_receiver_first(sender, receiver, amount) ==
    IF ~receiver_opted_in(receiver) THEN "NotOptedIn"
    ELSE IF sender_balance(sender) < amount THEN "NotEnoughBalance"
    ELSE "Ok"

\* Mutant of transfer_check: a frozen caller may not send.
transfer_check_frozen_sender(sender, receiver, amount) ==
    IF unwrap_or(MappingGet(frozen_holders, sender), FALSE) THEN "FrozenAccount"
    ELSE IF sender_balance(sender) < amount THEN "NotEnoughBalance"
    ELSE IF ~receiver_opted_in(receiver) THEN "NotOptedIn"
    ELSE "Ok"

\* Mutant of transfer_check: a transfer of nothing is refused.
transfer_check_zero_amount(sender, receiver, amount) ==
    IF amount = 0 THEN "ZeroAmount"
    ELSE IF sender_balance(sender) < amount THEN "NotEnoughBalance"
    ELSE IF ~receiver_opted_in(receiver) THEN "NotOptedIn"
    ELSE "Ok"

\* The early returns of transfer, in the order of the code: the balance
\* check, then the receiver's opt-in check.
transfer_check(sender, receiver, amount) ==
    IF sender_balance(sender) < amount THEN "NotEnoughBalance"
    ELSE IF ~receiver_opted_in(receiver) THEN "NotOptedIn"
    ELSE "Ok"

\* Mutant of transfer: the debit is written before the receiver's opt-in is
\* checked, so a refused transfer has already taken the amount.
transfer_debit_first(sender, receiver, amount) ==
    /\ Dispatch("transfer", sender)
    /\ IF sender_balance(sender) < amount THEN Err("NotEnoughBalance")
       ELSE IF ~receiver_opted_in(receiver)
       THEN /\ balances' = MappingInsert(balances, sender, sender_balance(sender) - amount)
            /\ events' = <<>>
            /\ ret' = "NotOptedIn"
            /\ UNCHANGED <<params, roles, accounts_opted_in, frozen_holders>>
       ELSE /\ balances' = transfer_balances(sender, receiver, amount)
            /\ events' = <<TransferEvent(sender, receiver, amount)>>
            /\ ret' = "Ok"
            /\ UNCHANGED <<params, roles, accounts_opted_in, frozen_holders>>

transfer(sender, receiver, amount) ==
    /\ Dispatch("transfer", sender)
    /\ LET checked == transfer_check(sender, receiver, amount) IN
       IF checked # "Ok" THEN Err(checked)
       ELSE /\ balances' = transfer_balances(sender, receiver, amount)
            /\ events' = <<TransferEvent(sender, receiver, amount)>>
            /\ ret' = "Ok"
            /\ UNCHANGED <<params, roles, accounts_opted_in, frozen_holders>>

\* let caller_opted_in = self.accounts_opted_in.get(&caller).unwrap_or(false);
caller_opted_in(caller) == unwrap_or(MappingGet(accounts_opted_in, caller), FALSE)

\* Mutant of opt_in: opting in again is accepted.
opt_in_again(caller) ==
    /\ Dispatch("opt_in", caller)
    /\ accounts_opted_in' = MappingInsert(accounts_opted_in, caller, TRUE)
    /\ events' = <<OptInEvent(caller)>>
    /\ ret' = "Ok"
    /\ UNCHANGED <<params, roles, balances, frozen_holders>>

opt_in(caller) ==
    /\ Dispatch("opt_in", caller)
    /\ IF caller_opted_in(caller) THEN Err("AlreadyOptedIn")
       ELSE /\ accounts_opted_in' = MappingInsert(accounts_opted_in, caller, TRUE)
            /\ events' = <<OptInEvent(caller)>>
            /\ ret' = "Ok"
            /\ UNCHANGED <<params, roles, balances, frozen_holders>>

\* Mutant of opt_out: opting out gives up the caller's balance.
opt_out_clears_balance(caller) ==
    /\ Dispatch("opt_out", caller)
    /\ IF ~caller_opted_in(caller) THEN Err("NotOptedIn")
       ELSE /\ accounts_opted_in' = MappingInsert(accounts_opted_in, caller, FALSE)
            /\ balances' = MappingInsert(balances, caller, 0)
            /\ events' = <<OptOutEvent(caller)>>
            /\ ret' = "Ok"
            /\ UNCHANGED <<params, roles, frozen_holders>>

opt_out(caller) ==
    /\ Dispatch("opt_out", caller)
    /\ IF ~caller_opted_in(caller) THEN Err("NotOptedIn")
       ELSE /\ accounts_opted_in' = MappingInsert(accounts_opted_in, caller, FALSE)
            /\ events' = <<OptOutEvent(caller)>>
            /\ ret' = "Ok"
            /\ UNCHANGED <<params, roles, balances, frozen_holders>>

\* let account_frozen = self.frozen_holders.get(&account).unwrap_or(false);
account_frozen(account) == unwrap_or(MappingGet(frozen_holders, account), FALSE)

\* Mutant of freeze_check: the caller is checked before the asset's policy.
freeze_check_caller_first(caller, account, freeze_arg) ==
    IF caller # freezeId THEN "NotFreezeId"
    ELSE IF ~default_frozen THEN "NotFreezable"
    ELSE IF account_frozen(account) THEN "AlreadyFrozen"
    ELSE "Ok"

\* Mutant of freeze_check: the caller is compared with the manager.
freeze_check_manager(caller, account, freeze_arg) ==
    IF ~default_frozen THEN "NotFreezable"
    ELSE IF caller # managerId THEN "NotFreezeId"
    ELSE IF account_frozen(account) THEN "AlreadyFrozen"
    ELSE "Ok"

\* Mutant of freeze_check: a frozen account is refused only a second freeze,
\* so that it can be unfrozen.
freeze_check_unfreeze(caller, account, freeze_arg) ==
    IF ~default_frozen THEN "NotFreezable"
    ELSE IF caller # freezeId THEN "NotFreezeId"
    ELSE IF account_frozen(account) /\ freeze_arg THEN "AlreadyFrozen"
    ELSE "Ok"

\* The early returns of freeze, in the order of the code: the asset's policy,
\* the caller, the account's flag.  The requested value is not looked at.
freeze_check(caller, account, freeze_arg) ==
    IF ~default_frozen THEN "NotFreezable"
    ELSE IF caller # freezeId THEN "NotFreezeId"
    ELSE IF account_frozen(account) THEN "AlreadyFrozen"
    ELSE "Ok"

\* Mutant of freeze: a successful freeze always sets the flag, whatever value
\* was requested.
freeze_always_true(caller, account, freeze_arg) ==
    /\ Dispatch("freeze", caller)
    /\ LET checked == freeze_check(caller, account, freeze_arg) IN
       IF checked # "Ok" THEN Err(checked)
       ELSE /\ frozen_holders' = MappingInsert(frozen_holders, account, TRUE)
            /\ events' = <<FreezeEvent(account, freezeId, freeze_arg)>>
            /\ ret' = "Ok"
            /\ UNCHANGED <<params, roles, balances, accounts_opted_in>>

freeze(caller, account, freeze_arg) ==
    /\ Dispatch("freeze", caller)
    /\ LET checked == freeze_check(caller, account, freeze_arg) IN
       IF checked # "Ok" THEN Err(checked)
       ELSE /\ frozen_holders' = MappingInsert(frozen_holders, account, freeze_arg)
            /\ events' = <<FreezeEvent(account, freezeId, freeze_arg)>>
            /\ ret' = "Ok"
            /\ UNCHANGED <<params, roles, balances, accounts_opted_in>>

\* Mutant of modify_asset_check: the caller is compared with the freeze
\* authority.
modify_asset_check_freeze_id(caller) ==
    IF caller # freezeId THEN "NotManagerId" ELSE "Ok"

\* Mutant of modify_asset_check: the caller is compared with alice, the
\* account that constructs the asset in every behaviour, and not with the
\* manager stored now.
modify_asset_check_creator(caller) ==
    IF caller # "alice" THEN "NotManagerId" ELSE "Ok"

\* Mutant of modify_asset_check: an asset without a manager accepts any
\* caller.
modify_asset_check_unowned(caller) ==
    IF managerId # ZeroAccount /\ caller # managerId THEN "NotManagerId" ELSE "Ok"

\* The early return of modify_asset.
modify_asset_check(caller) ==
    IF caller # managerId THEN "NotManagerId" ELSE "Ok"

\* Mutant of modify_asset_roles: an absent argument leaves the role as it is.
modify_asset_roles_patch(manager, reserve, freeze_opt, clawback) ==
    <<unwrap_or(manager, managerId), unwrap_or(reserve, reserveId),
      unwrap_or(freeze_opt, freezeId), unwrap_or(clawback, clawbackId)>>

\* The four roles modify_asset writes: each argument, or the sentinel.
modify_asset_roles(manager, reserve, freeze_opt, clawback) ==
    <<unwrap_or(manager, ZeroAccount), unwrap_or(reserve, ZeroAccount),
      unwrap_or(freeze_opt, ZeroAccount), unwrap_or(clawback, ZeroAccount)>>

modify_asset(caller, manager, reserve, freeze_opt, clawback) ==
    /\ Dispatch("modify_asset", caller)
    /\ LET checked == modify_asset_check(caller)
           written == modify_asset_roles(manager, reserve, freeze_opt, clawback) IN
       IF checked # "Ok" THEN Err(checked)
       ELSE /\ managerId' = written[1]
            /\ reserveId' = written[2]
            /\ freezeId' = written[3]
            /\ clawbackId' = written[4]
            /\ events' = <<ModifyEvent(managerId', reserveId', freezeId', clawbackId')>>
            /\ ret' = "Ok"
            /\ UNCHANGED <<params, ledger>>

\* ------------------------------------------------------------ construction

\* Mutant of new: the constructor credits the whole supply to the creator.
new_minted(creator, total_arg, default_frozen_arg, manager, reserve, freeze_opt, clawback) ==
    /\ env_caller = creator
    /\ total = total_arg
    /\ default_frozen = default_frozen_arg
    /\ managerId = unwrap_or(manager, ZeroAccount)
    /\ reserveId = unwrap_or(reserve, ZeroAccount)
    /\ freezeId = unwrap_or(freeze_opt, ZeroAccount)
    /\ clawbackId = unwrap_or(clawback, ZeroAccount)
    /\ balances = MappingInsert(MappingDefault, creator, total_arg)
    /\ accounts_opted_in = MappingDefault
    /\ frozen_holders = MappingDefault
    /\ op = "new"
    /\ ret = "Ok"
    /\ events = <<>>

\* Subsa::new, called by the creator: the roles come from the optional
\* arguments, the three mappings start empty, no event is emitted and no
\* balance is credited.  In every behaviour the creator is alice.
new(creator, total_arg, default_frozen_arg, manager, reserve, freeze_opt, clawback) ==
    /\ env_caller = creator
    /\ total = total_arg
    /\ default_frozen = default_frozen_arg
    /\ managerId = unwrap_or(manager, ZeroAccount)
    /\ reserveId = unwrap_or(reserve, ZeroAccount)
    /\ freezeId = unwrap_or(freeze_opt, ZeroAccount)
    /\ clawbackId = unwrap_or(clawback, ZeroAccount)
    /\ balances = MappingDefault
    /\ accounts_opted_in = MappingDefault
    /\ frozen_holders = MappingDefault
    /\ op = "new"
    /\ ret = "Ok"
    /\ events = <<>>

Init ==
    \E total_arg \in TotalArgs, default_frozen_arg \in BOOLEAN,
       manager, freeze_opt \in RoleArgs, reserve, clawback \in SpareRoleArgs :
        /\ new("alice", total_arg, default_frozen_arg, manager, reserve, freeze_opt, clawback)
        /\ calls = 0

\* Any ledger: an asset constructed with the whole supply recorded, alice as
\* manager and bob as freeze authority, whose balances and opt-in flags hold
\* any contents, observed for one message.  The balances are parts of the
\* recorded supply, so their sum is at most `total`, which is a Balance: no
\* credit can exceed Balance::MAX.  A frozen flag exists only when the asset
\* can be frozen, and then for alice alone.
InitLedger ==
    /\ total = MaxBalance
    /\ default_frozen \in BOOLEAN
    /\ managerId = "alice"
    /\ reserveId = ZeroAccount
    /\ freezeId = "bob"
    /\ clawbackId = ZeroAccount
    /\ balances \in Mappings(AccountId, Balance)
    /\ SumOfBalances(balances) <= total
    /\ accounts_opted_in \in Mappings(AccountId, BOOLEAN)
    /\ frozen_holders \in Mappings({"alice"}, BOOLEAN)
    /\ (~default_frozen => frozen_holders = MappingDefault)
    /\ env_caller = "alice"
    /\ op = "new"
    /\ ret = "Ok"
    /\ events = <<>>
    /\ calls = MaxCalls - 1

\* Any roles: an asset just constructed by alice with Some(identifier) passed
\* for each role, any identifier of the model, observed for one message.
InitRoles ==
    /\ \E default_frozen_arg \in BOOLEAN, manager, reserve, freeze_opt, clawback \in AccountId :
          new("alice", MaxBalance, default_frozen_arg,
              Some(manager), Some(reserve), Some(freeze_opt), Some(clawback))
    /\ calls = MaxCalls - 1

\* A distributed supply: the asset of InitLedger whose supply is held by alice
\* and bob in any split, both of them opted in and no account frozen,
\* observed for MaxCalls messages.
InitHolders ==
    /\ total = MaxBalance
    /\ default_frozen \in BOOLEAN
    /\ managerId = "alice"
    /\ reserveId = ZeroAccount
    /\ freezeId = "bob"
    /\ clawbackId = ZeroAccount
    /\ balances \in [{"alice", "bob"} -> Balance]
    /\ SumOfBalances(balances) = total
    /\ accounts_opted_in = [a \in {"alice", "bob"} |-> TRUE]
    /\ frozen_holders = MappingDefault
    /\ env_caller = "alice"
    /\ op = "new"
    /\ ret = "Ok"
    /\ events = <<>>
    /\ calls = 0

\* A creator in charge: an asset that can be frozen, just constructed by
\* alice with herself passed as manager and as freeze authority, observed for
\* MaxCalls messages.
InitCreator ==
    /\ \E reserve, clawback \in SpareRoleArgs :
          new("alice", MaxBalance, TRUE, Some("alice"), reserve, Some("alice"), clawback)
    /\ calls = 0

Next ==
    \/ \E sender, receiver \in AccountId, amount \in Balance :
           transfer(sender, receiver, amount)
    \/ \E caller \in AccountId : opt_in(caller)
    \/ \E caller \in AccountId : opt_out(caller)
    \/ \E caller, account \in AccountId, freeze_arg \in BOOLEAN :
           freeze(caller, account, freeze_arg)
    \/ \E caller \in AccountId, manager, freeze_opt \in RoleArgs,
          reserve, clawback \in SpareRoleArgs :
           modify_asset(caller, manager, reserve, freeze_opt, clawback)

\* Any sequence of messages to a freshly constructed asset.
Spec == Init /\ [][Next]_vars

\* One message to an asset holding any ledger.
SpecLedger == InitLedger /\ [][Next]_vars

\* One message to an asset whose four roles are held by any identifiers.
SpecRoles == InitRoles /\ [][Next]_vars

\* Any sequence of messages to an asset whose supply is held by its accounts.
SpecHolders == InitHolders /\ [][Next]_vars

\* Any sequence of messages to an asset whose creator made itself manager and
\* freeze authority.
SpecCreator == InitCreator /\ [][Next]_vars

\* ------------------------------------------------------- reading the ledger

\* An account's balance, an absent entry counting as 0.
BalanceOf(m, a) == IF a \in DOMAIN m THEN m[a] ELSE 0

\* An account's flag in a mapping of flags, an absent entry counting as false.
FlagOf(m, a) == a \in DOMAIN m /\ m[a]

\* The account has never opted in: no opt_in of it ever wrote its flag.
NeverOptedIn(m, a) == a \notin DOMAIN m

\* The event the last message emitted, when it emitted exactly one.
LastEvent == events[1]

\* ------------------------------------------------------------------ claims

\* C1 as stated: for ALL accounts A and B (A = B included), a transfer from
\* an opted-in A holding at least the amount to an opted-in B succeeds,
\* lowers A's balance by the amount, raises B's by the amount and keeps the
\* sum of the two.
C1_TransferMovesAmountAnyPair ==
    [][op' = "transfer" => \A A, B \in AccountId, amount \in Balance :
          ( /\ transfer(A, B, amount)
            /\ FlagOf(accounts_opted_in, A)
            /\ BalanceOf(balances, A) >= amount
            /\ FlagOf(accounts_opted_in, B) )
          => /\ ret' = "Ok"
             /\ BalanceOf(balances', A) = BalanceOf(balances, A) - amount
             /\ BalanceOf(balances', B) = BalanceOf(balances, B) + amount
             /\ BalanceOf(balances', A) + BalanceOf(balances', B)
                  = BalanceOf(balances, A) + BalanceOf(balances, B)]_vars

\* C1, amended: for all DISTINCT accounts A and B, a transfer from an
\* opted-in A holding at least the amount to an opted-in B succeeds, lowers
\* A's balance by the amount, raises B's by the amount and keeps the sum of
\* the two.
C1_TransferMovesAmount ==
    [][op' = "transfer" => \A A, B \in AccountId, amount \in Balance :
          ( /\ A # B
            /\ transfer(A, B, amount)
            /\ FlagOf(accounts_opted_in, A)
            /\ BalanceOf(balances, A) >= amount
            /\ FlagOf(accounts_opted_in, B) )
          => /\ ret' = "Ok"
             /\ BalanceOf(balances', A) = BalanceOf(balances, A) - amount
             /\ BalanceOf(balances', B) = BalanceOf(balances, B) + amount
             /\ BalanceOf(balances', A) + BalanceOf(balances', B)
                  = BalanceOf(balances, A) + BalanceOf(balances, B)]_vars

\* A transfer of a positive amount between two distinct opted-in accounts has
\* succeeded and left a balance with the sender.
C1_Witness ==
    /\ op = "transfer"
    /\ ret = "Ok"
    /\ Len(events) = 1
    /\ LastEvent.kind = "Transfer"
    /\ LastEvent.sender = env_caller
    /\ LastEvent.receiver # env_caller
    /\ LastEvent.amount = Some(1)
    /\ FlagOf(accounts_opted_in, env_caller)
    /\ FlagOf(accounts_opted_in, LastEvent.receiver)
    /\ BalanceOf(balances, env_caller) = 1
    /\ BalanceOf(balances, LastEvent.receiver) = 1

\* C2: a transfer of more than the caller's balance (an absent balance
\* counting as 0) returns NotEnoughBalance and leaves every balance, opt-in
\* flag, frozen flag and role as it was; and no balance is ever below zero.
C2_NotEnoughBalance ==
    /\ [][op' = "transfer" => \A A, B \in AccountId, amount \in Balance :
             (transfer(A, B, amount) /\ amount > BalanceOf(balances, A))
             => /\ ret' = "NotEnoughBalance"
                /\ UNCHANGED <<balances, accounts_opted_in, frozen_holders>>
                /\ UNCHANGED roles]_vars
    /\ [](\A a \in DOMAIN balances : balances[a] >= 0)

\* A caller holding 1 has asked to transfer more and was refused.
C2_Witness ==
    /\ op = "transfer"
    /\ ret = "NotEnoughBalance"
    /\ events = <<>>
    /\ BalanceOf(balances, env_caller) = 1

\* C3 as stated: a transfer to a receiver that has never opted in fails with
\* NotOptedIn, for every caller and EVERY amount, and leaves the ledger and
\* the roles as they were.
C3_NeverOptedInAnyAmount ==
    [][op' = "transfer" => \A A, B \in AccountId, amount \in Balance :
          (transfer(A, B, amount) /\ NeverOptedIn(accounts_opted_in, B))
          => /\ ret' = "NotOptedIn"
             /\ UNCHANGED <<balances, accounts_opted_in, frozen_holders>>
             /\ UNCHANGED roles]_vars

\* C3, amended: a transfer to a receiver that has never opted in fails with
\* NotOptedIn for every caller and every amount NOT EXCEEDING THE CALLER'S
\* BALANCE (with a larger amount it fails with NotEnoughBalance instead);
\* either way it leaves the ledger and the roles as they were.
C3_NeverOptedIn ==
    [][op' = "transfer" => \A A, B \in AccountId, amount \in Balance :
          (transfer(A, B, amount) /\ NeverOptedIn(accounts_opted_in, B))
          => /\ ret' = (IF amount <= BalanceOf(balances, A)
                        THEN "NotOptedIn" ELSE "NotEnoughBalance")
             /\ UNCHANGED <<balances, accounts_opted_in, frozen_holders>>
             /\ UNCHANGED roles]_vars

\* A caller holding a balance was refused a transfer with NotOptedIn while
\* some account other than the caller has never opted in.
C3_Witness ==
    /\ op = "transfer"
    /\ ret = "NotOptedIn"
    /\ events = <<>>
    /\ BalanceOf(balances, env_caller) > 0
    /\ \E B \in AccountId \ {env_caller} : NeverOptedIn(accounts_opted_in, B)

C5_NotFreezable ==
    /\ [][default_frozen' = default_frozen]_vars
    /\ [][(op' = "freeze" /\ ~default_frozen) =>
             \A c, a \in AccountId, v \in BOOLEAN :
                freeze(c, a, v) => (ret' = "NotFreezable" /\ UNCHANGED storage)]_vars
    /\ [](~default_frozen => \A a \in AccountId : ~FlagOf(frozen_holders, a))

\* The freeze authority itself, a real account, was refused on an asset that
\* cannot be frozen.
C5_Witness ==
    /\ ~default_frozen
    /\ op = "freeze"
    /\ env_caller = freezeId
    /\ freezeId # ZeroAccount
    /\ ret = "NotFreezable"

\* C6 as stated: a freeze by a caller that is not the current freeze
\* authority fails with NotFreezeId and changes nothing, for every target and
\* requested value, WHATEVER the asset's default_frozen.
C6_NotFreezeIdAnyAsset ==
    [][op' = "freeze" =>
          \A c, a \in AccountId, v \in BOOLEAN :
             (freeze(c, a, v) /\ c # freezeId)
             => (ret' = "NotFreezeId" /\ UNCHANGED storage)]_vars

\* C6, amended: ON AN ASSET CONSTRUCTED WITH default_frozen = true, a freeze
\* by a caller that is not the current freeze authority fails with
\* NotFreezeId and changes nothing, for every target and requested value,
\* also when the target is not frozen.  (With default_frozen = false it fails
\* with NotFreezable, and changes nothing either.)
C6_NotFreezeId ==
    [][op' = "freeze" =>
          \A c, a \in AccountId, v \in BOOLEAN :
             (freeze(c, a, v) /\ c # freezeId)
             => /\ ret' = (IF default_frozen THEN "NotFreezeId" ELSE "NotFreezable")
                /\ UNCHANGED storage]_vars

\* On an asset that can be frozen, with no account frozen yet, a caller other
\* than the freeze authority was refused.
C6_Witness ==
    /\ default_frozen
    /\ op = "freeze"
    /\ env_caller # freezeId
    /\ ret = "NotFreezeId"
    /\ events = <<>>
    /\ \A a \in AccountId : ~FlagOf(frozen_holders, a)

\* C7: a modify_asset by a caller other than the current manager fails with
\* NotManagerId and leaves the four roles as they were, whatever arguments
\* it passes (every step of modify_asset, with any arguments, is covered).
C7_NotManagerId ==
    [][(op' = "modify_asset" /\ env_caller' # managerId)
          => /\ ret' = "NotManagerId"
             /\ managerId' = managerId
             /\ reserveId' = reserveId
             /\ freezeId' = freezeId
             /\ clawbackId' = clawbackId]_vars

\* A real account that is not the manager was refused a modify_asset on an
\* asset that has a manager.
C7_Witness ==
    /\ op = "modify_asset"
    /\ env_caller # managerId
    /\ env_caller # ZeroAccount
    /\ managerId # ZeroAccount
    /\ ret = "NotManagerId"

\* The identifier a role argument stands for: the one passed, or the
\* all-zero sentinel when none is passed.
Passed(arg) == IF arg = None THEN ZeroAccount ELSE arg[1]

\* C8: a modify_asset by the current manager succeeds and replaces all four
\* roles: each becomes the identifier passed for it, or the sentinel when
\* none was passed, whatever it was before; with no argument passed at all,
\* all four roles become the sentinel.
C8_WholesaleReplace ==
    [][(op' = "modify_asset" /\ env_caller' = managerId) =>
          \A m, f \in RoleArgs, r, c \in SpareRoleArgs :
             modify_asset(managerId, m, r, f, c)
             => /\ ret' = "Ok"
                /\ managerId' = Passed(m)
                /\ reserveId' = Passed(r)
                /\ freezeId' = Passed(f)
                /\ clawbackId' = Passed(c)]_vars

\* A modify_asset by a manager that is a real account, passing nothing, has
\* cleared all four roles.
C8_Witness ==
    /\ op = "modify_asset"
    /\ ret = "Ok"
    /\ env_caller # ZeroAccount
    /\ managerId = ZeroAccount
    /\ reserveId = ZeroAccount
    /\ freezeId = ZeroAccount
    /\ clawbackId = ZeroAccount

\* C9: an account's frozen flag, once true, is true in every later state,
\* whatever messages follow from whatever callers; and a freeze of a frozen
\* account by the freeze authority, with either requested value, fails with
\* AlreadyFrozen.
C9_FrozenStaysFrozen ==
    /\ [][\A a \in AccountId :
             FlagOf(frozen_holders, a) => FlagOf(frozen_holders', a)]_vars
    /\ [][op' = "freeze" =>
             \A a \in AccountId, v \in BOOLEAN :
                (freeze(freezeId, a, v) /\ FlagOf(frozen_holders, a))
                => (ret' = "AlreadyFrozen" /\ UNCHANGED storage)]_vars

\* A second freeze by the freeze authority, right after the first message
\* froze an account, was refused with AlreadyFrozen.
C9_Witness ==
    /\ calls = 2
    /\ op = "freeze"
    /\ env_caller = freezeId
    /\ ret = "AlreadyFrozen"
    /\ \E a \in AccountId : FlagOf(frozen_holders, a)

\* The kind of event each message emits.
EventKind(message) ==
    CASE message = "transfer" -> "Transfer"
      [] message = "opt_in" -> "OptIn"
      [] message = "opt_out" -> "OptOut"
      [] message = "freeze" -> "Freeze"
      [] message = "modify_asset" -> "Modify"

\* C10: every message is all-or-nothing.  One that returns Ok has emitted
\* exactly one event, of its own kind; one that returns an error has emitted
\* no event and has changed nothing in storage.
C10_AllOrNothing ==
    [][IF ret' = "Ok"
       THEN Len(events') = 1 /\ events'[1].kind = EventKind(op')
       ELSE ret' \in Error /\ events' = <<>> /\ UNCHANGED storage]_vars

\* A transfer was refused for its receiver by a caller holding a balance,
\* which it still holds: nothing was debited and nothing emitted.
C10_Witness ==
    /\ op = "transfer"
    /\ ret = "NotOptedIn"
    /\ events = <<>>
    /\ BalanceOf(balances, env_caller) = MaxBalance

\* C11: transfer checks the caller's balance before the receiver's opt-in.
\* A transfer of more than the caller's balance returns NotEnoughBalance also
\* when the receiver is not opted in; NotOptedIn is returned exactly when the
\* caller's balance is at least the amount and the receiver's flag is false.
C11_BalanceCheckedFirst ==
    [][op' = "transfer" => \A A, B \in AccountId, amount \in Balance :
          transfer(A, B, amount)
          => /\ (amount > BalanceOf(balances, A) /\ ~FlagOf(accounts_opted_in, B))
                   => ret' = "NotEnoughBalance"
             /\ (ret' = "NotOptedIn")
                   <=> (BalanceOf(balances, A) >= amount /\ ~FlagOf(accounts_opted_in, B))]_vars

\* A caller holding 1 asked for more while no account at all was opted in, so
\* both checks would refuse, and was answered NotEnoughBalance.
C11_Witness ==
    /\ op = "transfer"
    /\ ret = "NotEnoughBalance"
    /\ BalanceOf(balances, env_caller) = 1
    /\ \A B \in AccountId : ~FlagOf(accounts_opted_in, B)

\* C12: in every state reached from construction by any sequence of
\* messages every account's balance is 0, whatever supply was recorded at
\* construction; and every transfer that succeeds is one of amount 0.
C12_NoBalanceEver ==
    /\ [](\A a \in AccountId : BalanceOf(balances, a) = 0)
    /\ [][(op' = "transfer" /\ ret' = "Ok") =>
             \A A, B \in AccountId, amount \in Balance :
                transfer(A, B, amount) => amount = 0]_vars

\* On an asset constructed with the largest supply, the second message was a
\* transfer that succeeded: it moved 0, and every balance is 0.
C12_Witness ==
    /\ total = MaxBalance
    /\ calls = 2
    /\ op = "transfer"
    /\ ret = "Ok"
    /\ LastEvent.amount = Some(0)
    /\ \A a \in AccountId : BalanceOf(balances, a) = 0

\* The sum of all accounts' balances, an absent entry counting as 0.
RECURSIVE SumOfAccounts(_, _)
SumOfAccounts(m, A) ==
    IF A = {} THEN 0
    ELSE LET a == CHOOSE x \in A : TRUE
         IN  BalanceOf(m, a) + SumOfAccounts(m, A \ {a})

\* C13: the sum of all balances is conserved.  From any ledger, every step
\* (a transfer that succeeds or fails, an opt_in, an opt_out, a freeze or a
\* modify_asset, by any caller) leaves the sum of all balances as it was, and
\* every step other than a transfer leaves each single balance as it was.
C13_SumConserved ==
    [][/\ SumOfAccounts(balances', AccountId) = SumOfAccounts(balances, AccountId)
       /\ op' # "transfer" =>
             \A a \in AccountId : BalanceOf(balances', a) = BalanceOf(balances, a)]_vars

\* A transfer has moved the whole supply from the caller to another account.
C13_Witness ==
    /\ op = "transfer"
    /\ ret = "Ok"
    /\ LastEvent.amount = Some(MaxBalance)
    /\ LastEvent.receiver # env_caller
    /\ BalanceOf(balances, env_caller) = 0
    /\ BalanceOf(balances, LastEvent.receiver) = MaxBalance
    /\ SumOfAccounts(balances, AccountId) = MaxBalance

\* What a transfer does, as a function of the caller's balance, the
\* receiver's balance, the receiver's opt-in flag, whether the receiver is the
\* caller, and the amount, and of nothing else: the result, and the two
\* balances afterwards.
TransferOutcome(sender_bal, receiver_bal, receiver_flag, to_self, amount) ==
    IF sender_bal < amount
    THEN [result |-> "NotEnoughBalance", sender_bal |-> sender_bal, receiver_bal |-> receiver_bal]
    ELSE IF ~receiver_flag
    THEN [result |-> "NotOptedIn", sender_bal |-> sender_bal, receiver_bal |-> receiver_bal]
    ELSE IF to_self
    THEN [result |-> "Ok", sender_bal |-> sender_bal, receiver_bal |-> receiver_bal]
    ELSE [result |-> "Ok", sender_bal |-> sender_bal - amount, receiver_bal |-> receiver_bal + amount]

\* C14: transfer consults neither the frozen flags, nor default_frozen, nor
\* the caller's own opt-in flag.  Its result and the balances it produces are
\* one function of the caller's balance, the receiver's balance and the
\* receiver's opt-in flag, so two states that agree on these three and differ
\* in frozen flags, default_frozen or the caller's opt-in flag give the same
\* result and the same balances; the balances of third accounts stay.
C14_TransferIgnoresFreeze ==
    [][op' = "transfer" => \A A, B \in AccountId, amount \in Balance :
          transfer(A, B, amount)
          => LET outcome == TransferOutcome(BalanceOf(balances, A), BalanceOf(balances, B),
                                            FlagOf(accounts_opted_in, B), A = B, amount)
             IN  /\ ret' = outcome.result
                 /\ BalanceOf(balances', A) = outcome.sender_bal
                 /\ BalanceOf(balances', B) = outcome.receiver_bal
                 /\ \A x \in AccountId \ {A, B} :
                       BalanceOf(balances', x) = BalanceOf(balances, x)]_vars

\* A frozen account that is not opted in has sent a positive amount to
\* another account, on an asset with default_frozen = true.
C14_Witness ==
    /\ op = "transfer"
    /\ ret = "Ok"
    /\ default_frozen
    /\ FlagOf(frozen_holders, env_caller)
    /\ ~FlagOf(accounts_opted_in, env_caller)
    /\ LastEvent.receiver # env_caller
    /\ LastEvent.amount # Some(0)

\* C15: opt_out neither checks nor alters balances.  An opt_out by an
\* opted-in account succeeds whatever its balance and changes only that
\* account's opt-in flag: balances, frozen flags, roles and the other
\* accounts' flags stay.  Afterwards the flag stays false until the account
\* itself opts in, and while it is false every transfer to the account by a
\* sender whose balance covers the amount fails with NotOptedIn and changes
\* nothing.
C15_OptOutKeepsBalance ==
    /\ [][op' = "opt_out" => \A a \in AccountId :
             (opt_out(a) /\ FlagOf(accounts_opted_in, a))
             => /\ ret' = "Ok"
                /\ ~FlagOf(accounts_opted_in', a)
                /\ \A b \in AccountId \ {a} :
                      FlagOf(accounts_opted_in', b) = FlagOf(accounts_opted_in, b)
                /\ UNCHANGED <<balances, frozen_holders>>
                /\ UNCHANGED roles]_vars
    /\ [][\A a \in AccountId :
             (~FlagOf(accounts_opted_in, a) /\ FlagOf(accounts_opted_in', a))
             => opt_in(a)]_vars
    /\ [][op' = "transfer" => \A A, B \in AccountId, amount \in Balance :
             ( /\ transfer(A, B, amount)
               /\ ~FlagOf(accounts_opted_in, B)
               /\ BalanceOf(balances, A) >= amount )
             => (ret' = "NotOptedIn" /\ UNCHANGED storage)]_vars

\* An account holding a balance has opted out and kept it, and the next
\* message, a transfer by another account that holds a balance, was refused
\* with NotOptedIn.
C15_Witness ==
    /\ calls = 2
    /\ op = "transfer"
    /\ ret = "NotOptedIn"
    /\ BalanceOf(balances, env_caller) > 0
    /\ \E B \in (DOMAIN accounts_opted_in) \ {env_caller} :
          ~accounts_opted_in[B] /\ BalanceOf(balances, B) > 0

\* C16: on an asset with default_frozen = true, a freeze of an account that
\* is not frozen, called by the current freeze authority, succeeds for the
\* requested value true and for the requested value false.  It sets that
\* account's frozen flag to the requested value and nothing else, and emits
\* one Freeze event carrying the account, the current freeze authority and
\* the requested value; with false requested the flag stays false.
C16_FreezeStoresRequest ==
    [][(op' = "freeze" /\ default_frozen) =>
          \A a \in AccountId, v \in BOOLEAN :
             (freeze(freezeId, a, v) /\ ~FlagOf(frozen_holders, a))
             => /\ ret' = "Ok"
                /\ FlagOf(frozen_holders', a) = v
                /\ \A b \in AccountId \ {a} :
                      FlagOf(frozen_holders', b) = FlagOf(frozen_holders, b)
                /\ UNCHANGED <<balances, accounts_opted_in>>
                /\ UNCHANGED roles
                /\ UNCHANGED params
                /\ Len(events') = 1
                /\ events'[1].kind = "Freeze"
                /\ events'[1].account = a
                /\ events'[1].freeze_id = freezeId
                /\ events'[1].freeze = v]_vars

\* A freeze requesting false, by a freeze authority that is a real account,
\* has succeeded: the event carries false and the account is not frozen.
C16_Witness ==
    /\ default_frozen
    /\ op = "freeze"
    /\ ret = "Ok"
    /\ env_caller = freezeId
    /\ freezeId # ZeroAccount
    /\ LastEvent.kind = "Freeze"
    /\ LastEvent.freeze = FALSE
    /\ LastEvent.account \in DOMAIN frozen_holders
    /\ ~FlagOf(frozen_holders, LastEvent.account)

\* The Error variants that some message returns.
ReturnedErrors == {"NotManagerId", "NotFreezeId", "NotOptedIn", "AlreadyOptedIn",
                   "NotFreezable", "AlreadyFrozen", "NotEnoughBalance"}

\* C17: whatever the state and the input, a message returns Ok or one of
\* NotManagerId, NotFreezeId, NotOptedIn, AlreadyOptedIn, NotFreezable,
\* AlreadyFrozen, NotEnoughBalance; NotReserveId, NotClawbackId, NotFrozen,
\* FrozenAccount and ZeroAmount are never returned.  In particular a transfer
\* of amount 0 to an opted-in receiver succeeds, for every caller.
C17_ReturnedErrors ==
    /\ [](ret \in {"Ok"} \cup ReturnedErrors)
    /\ [](ret \notin {"NotReserveId", "NotClawbackId", "NotFrozen",
                     "FrozenAccount", "ZeroAmount"})
    /\ [][op' = "transfer" => \A A, B \in AccountId :
             (transfer(A, B, 0) /\ FlagOf(accounts_opted_in, B)) => ret' = "Ok"]_vars

\* A transfer of 0 by a caller that never opted in, to another account that
\* is opted in, has succeeded.
C17_Witness ==
    /\ op = "transfer"
    /\ ret = "Ok"
    /\ LastEvent.amount = Some(0)
    /\ NeverOptedIn(accounts_opted_in, env_caller)
    /\ LastEvent.receiver # env_caller
    /\ FlagOf(accounts_opted_in, LastEvent.receiver)

\* C18: authorization uses the role holders stored at the time of the call,
\* not those set at construction.  The asset was constructed with alice as
\* manager and as freeze authority.  Once a modify_asset has replaced the
\* manager by another identifier, a modify_asset by alice fails with
\* NotManagerId and changes nothing while one by the manager stored now
\* succeeds; once it has replaced the freeze authority, a freeze of an
\* account that is not frozen fails with NotFreezeId when alice calls it and
\* succeeds when the freeze authority stored now calls it.
C18_CurrentRoleHolders ==
    /\ [][(op' = "modify_asset" /\ managerId # "alice") =>
             \A m, f \in RoleArgs, r, c \in SpareRoleArgs :
                /\ modify_asset("alice", m, r, f, c)
                      => (ret' = "NotManagerId" /\ UNCHANGED storage)
                /\ modify_asset(managerId, m, r, f, c) => ret' = "Ok"]_vars
    /\ [][(op' = "freeze" /\ default_frozen /\ freezeId # "alice") =>
             \A a \in AccountId, v \in BOOLEAN :
                ~FlagOf(frozen_holders, a)
                => /\ freeze("alice", a, v)
                         => (ret' = "NotFreezeId" /\ UNCHANGED storage)
                   /\ freeze(freezeId, a, v) => ret' = "Ok"]_vars

\* The first message handed both roles from alice to bob; the second, a
\* freeze by alice with no account frozen, was refused with NotFreezeId.
C18_Witness ==
    /\ calls = 2
    /\ op = "freeze"
    /\ env_caller = "alice"
    /\ ret = "NotFreezeId"
    /\ managerId = "bob"
    /\ freezeId = "bob"
    /\ \A a \in AccountId : ~FlagOf(frozen_holders, a)

\* C19: clearing the manager is irreversible for ordinary callers.  Once the
\* manager is the all-zero sentinel, by construction without a manager or by
\* a modify_asset that passed none, every modify_asset by a caller other than
\* the sentinel fails with NotManagerId, and every message by such a caller
\* leaves the four roles as they are.
C19_ClearedManagerStays ==
    [][(managerId = ZeroAccount /\ env_caller' # ZeroAccount)
          => /\ op' = "modify_asset" => ret' = "NotManagerId"
             /\ managerId' = ZeroAccount
             /\ reserveId' = reserveId
             /\ freezeId' = freezeId
             /\ clawbackId' = clawbackId]_vars

\* On an asset without a manager that keeps its freeze authority, the second
\* message, a modify_asset by the creator, was refused with NotManagerId.
C19_Witness ==
    /\ calls = 2
    /\ op = "modify_asset"
    /\ env_caller = "alice"
    /\ ret = "NotManagerId"
    /\ managerId = ZeroAccount
    /\ freezeId # ZeroAccount

\* C20: a self-transfer is balance-neutral.  From any ledger, a transfer in
\* which the caller names itself as receiver, is opted in and holds at least
\* the amount succeeds, emits one Transfer event from the caller to itself
\* with the amount, and leaves the caller's balance and every other balance
\* exactly as it was.
C20_SelfTransferNeutral ==
    [][op' = "transfer" => \A A \in AccountId, amount \in Balance :
          ( /\ transfer(A, A, amount)
            /\ FlagOf(accounts_opted_in, A)
            /\ BalanceOf(balances, A) >= amount )
          => /\ ret' = "Ok"
             /\ Len(events') = 1
             /\ events'[1].kind = "Transfer"
             /\ events'[1].sender = A
             /\ events'[1].receiver = A
             /\ events'[1].amount = Some(amount)
             /\ \A x \in AccountId : BalanceOf(balances', x) = BalanceOf(balances, x)]_vars

\* An opted-in account has transferred its whole balance to itself and still
\* holds it.
C20_Witness ==
    /\ op = "transfer"
    /\ ret = "Ok"
    /\ LastEvent.sender = env_caller
    /\ LastEvent.receiver = env_caller
    /\ LastEvent.amount = Some(MaxBalance)
    /\ FlagOf(accounts_opted_in, env_caller)
    /\ BalanceOf(balances, env_caller) = MaxBalance

====
